---- MODULE Spec2Model ----
(***************************************************************************)
(* Fraud prover service (FraudProverService): the driver loop, the scanner *)
(* over state-root indices, the witness assembler and the three-phase      *)
(* driver of the on-chain state transitioner, run by two prover processes  *)
(* against one settlement chain.                                           *)
(*                                                                         *)
(* Every await of the service is a suspension point; an action below is    *)
(* one stretch of code between suspension points that matter for the       *)
(* interleaving with the other prover (each on-chain submission is its own *)
(* action, and so is each read that guards a later submission).            *)
(***************************************************************************)
EXTENDS Integers, Sequences, FiniteSets, TLC

\* ------------------------------------------------------------------ bounds

\* State roots appended to the state commitment chain: indices 0..NumRoots-1.
NumRoots == 3
\* Accounts touched by a disputed transaction.
NumAccounts == 2
\* Storage slots of each touched account.
NumSlots == 2

\* Polls of the second prover in the specification of two racing provers (the
\* first prover has one more).
MaxPolls == 1

\* ------------------------------------------------------- program constants

\* defaultOptions.l2BlockOffset
l2BlockOffset == 1

Provers == {1, 2}
Index == 0 .. (NumRoots - 1)
Accounts == 1 .. NumAccounts
SlotKeys == 1 .. NumSlots

\* ------------------------------------------------------------------- state

VARIABLES
    \* settlement chain and rollup node (what the views read)
    l1Root,        \* l1Root[i]: state root i as published on the settlement chain
    batchStarts,   \* first index of every appended state-root batch
    validTip,      \* on-chain: number of state roots not deleted by a finalized dispute
    disp,          \* disp[i]: the transitioner / state manager of the dispute at index i
    changedAccounts, \* accounts the disputed transaction changes (state manager)
    changedSlots,    \* <<account, key>> slots the disputed transaction changes
    stateDiffProof,  \* what l2Provider.getStateDiffProof returns for the transaction
    otherReverts,    \* revert messages of the chain that no catch of the driver looks for
    \* configuration
    pollsLeft,     \* polls the supervisor lets the prover start before it stops it
    \* one prover process
    pc,            \* position in _start
    nextUnverifiedStateRoot,   \* this.state.nextUnverifiedStateRoot
    fraudulentStateRootIndex,  \* const fraudulentStateRootIndex in _start
    proof,         \* the FraudProofData bundle of the current dispute
    idx,           \* position of the for loops over accountStateProofs / storageProof
    nextUncommitted, \* nextUncommittedAccount / nextUncommittedStorageProof
    obs,           \* what the poll has read so far (the locals that hold the reads)
    \* history, for stating the properties
    pollStart,     \* the cursor when the current poll called the scanner
    outcome,       \* how the last finished poll ended
    endPc,         \* the position at which the last finished poll ended
    accepted,      \* whether an on-chain submission of the current poll was accepted
    wrote,         \* the latest phase the prover has submitted a write of in its dispute
    lastResult,    \* the result of the last on-chain submission of the current poll
    lateStart,     \* the dispute was finalized before this poll's phase driver began
    eventsSeen,    \* the committed accounts in the last AccountCommitted event read
    \* bootstrap of one prover process
    fromL2TransactionIndex,  \* this.options.fromL2TransactionIndex
    boot           \* boot[p]: where _init of prover p is, and its connection attempts

chainVars == <<l1Root, batchStarts, validTip, disp, changedAccounts, changedSlots,
               stateDiffProof, otherReverts>>
localVars == <<pc, nextUnverifiedStateRoot, fraudulentStateRootIndex, proof, idx,
               nextUncommitted, obs>>
histVars == <<pollStart, outcome, endPc, accepted, wrote, lastResult, lateStart,
              eventsSeen>>
bootVars == <<fromL2TransactionIndex, boot>>
vars == <<chainVars, pollsLeft, localVars, histVars, bootVars>>


\* ------------------------------------------------- settlement-chain view

\* L2ProviderWrapper.getStateRoot(block): the root the rollup node computed.
L2StateRoot(block) == block

\* A root no rollup block has: a fraudulent publication.
BadRoot == 0

\* L1ProviderWrapper.getStateRootBatchHeader(index): the header of the batch
\* whose append event encloses index, or nothing. Batch-append events stay in
\* the log, so the view does not change when a batch is deleted on-chain.
HasStateRootBatchHeader(index) == index \in Index

\* stateRootBatchHeader.prevTotalElements of the batch enclosing index.
PrevTotalElements(index) ==
    CHOOSE b \in batchStarts :
        /\ b <= index
        /\ \A c \in batchStarts : c <= index => c <= b

\* L1ProviderWrapper.getStateRoot(index)
L1StateRoot(index) == l1Root[index]

\* ------------------------------------ state manager and transitioner data

PhaseNone == "NONE"
PreExecution == "PRE_EXECUTION"
PostExecution == "POST_EXECUTION"
Complete == "COMPLETE"

TopWrites == {"initializeFraudVerification", "applyTransaction",
              "completeTransition", "finalizeFraudVerification"}

\* The dispute of an index nobody has initialized.
NoDispute ==
    [phase |-> PhaseNone,
     provenAccounts |-> {}, provenSlots |-> {},
     committedAccounts |-> {}, committedSlots |-> {},
     count |-> [w \in TopWrites |-> 0]]

\* Account state under the pre-state root.
PreAccount(a) == [nonce |-> 0, balance |-> a, storageRoot |-> a, codeHash |-> a]

\* OVM_StateManager.getAccount(a) once the transaction has been applied.
PostAccount(a) ==
    IF a \in changedAccounts
    THEN [PreAccount(a) EXCEPT !.nonce = 1, !.storageRoot = a + NumAccounts]
    ELSE PreAccount(a)

\* encodeAccountState: RLP over nonce, balance, storageRoot, codeHash.
encodeAccountState(s) == <<s.nonce, s.balance, s.storageRoot, s.codeHash>>

PreSlotValue(a, k) == 0

\* OVM_StateManager.getContractStorage(a, k) once the transaction has been applied.
PostSlotValue(a, k) == IF <<a, k>> \in changedSlots THEN k ELSE 0

\* rlp.encode(toStrippedHexString(value)): the value without leading zero bytes.
encodeSlotValue(v) == IF v = 0 THEN <<>> ELSE <<v>>

\* The transitioner's working state trie: the pre-state trie with every
\* committed account replaced by the state manager's account.
OnChainStateTrie(d) ==
    [a \in Accounts |->
        encodeAccountState(IF a \in d.committedAccounts THEN PostAccount(a)
                           ELSE PreAccount(a))]

\* The transitioner's working storage trie of account a.
OnChainStorageTrie(d, a) ==
    [k \in SlotKeys |->
        encodeSlotValue(IF <<a, k>> \in d.committedSlots THEN PostSlotValue(a, k)
                        ELSE PreSlotValue(a, k))]

\* OVM_StateManager.getTotalUncommittedAccounts()
TotalUncommittedAccounts(d) ==
    IF d.phase \in {PostExecution, Complete}
    THEN Cardinality(changedAccounts \ d.committedAccounts) ELSE 0

\* OVM_StateManager.getTotalUncommittedContractStorage()
TotalUncommittedContractStorage(d) ==
    IF d.phase \in {PostExecution, Complete}
    THEN Cardinality(changedSlots \ d.committedSlots) ELSE 0

\* OVM_StateManager.hasAccount(a)
HasAccount(d, a) == a \in d.provenAccounts

\* l2RpcProvider.getCode(a, block): every other account is a contract at a
\* given block, '0x' is the code of an account that is none.
GetCode(a, block) == IF (a + block) % 2 = 0 THEN "0x60806040" ELSE "0x"

\* The address of the contract a deployment transaction creates.
ContractAddress(code) == "0xdeployed"

\* ------------------------------------------------------------ the witness

\* stateDiffProof.accountStateProofs: the accounts the transaction touches.
accountStateProofs == stateDiffProof.accountStateProofs

\* accountStateProof.storageProof: the slots of one account.
storageProof(a) == stateDiffProof.storageProof

\* _makeStateTrie: the state trie view built from the account proofs.
makeStateTrie == [a \in Accounts |-> encodeAccountState(PreAccount(a))]

\* _makeAccountTries: one storage trie view per account of the witness.
makeAccountTries ==
    [a \in Accounts |-> [k \in SlotKeys |-> encodeSlotValue(PreSlotValue(a, k))]]

\* No bundle: between disputes.
NoProof ==
    [preStateRootProof |-> [stateRoot |-> BadRoot, prevTotalElements |-> 0],
     stateTrie |-> makeStateTrie,
     storageTries |-> makeAccountTries]


\* undefined, and a counter that was not read.
Undefined == -1

ZERO_ADDRESS == "0x0000000000000000000000000000000000000000"
Unread == "unread"

\* The reads of a poll before any is made.
NoObs ==
    [stateTransitionerAddress |-> Unread,
     hasAccount |-> FALSE,
     accountCode |-> Unread,
     ethContractAddress |-> Unread,
     deployments |-> 0,
     uncommittedStorage |-> Undefined,
     uncommittedAccounts |-> Undefined,
     storageCommittedEvents |-> {}]

\* ------------------------------------------- verifier contracts (reverts)

Ok == "ok"
PhaseGuard == "Function must be called during the correct phase."
AccountAlreadyProven == "Account state has already been proven"
SlotAlreadyProven == "Storage slot has already been proven."
InvalidRootHash == "Invalid root hash"
AccountNotCommittable == "Account state wasn't changed or has already been committed."
SlotNotCommittable == "Storage slot value wasn't changed or has already been committed."
InvalidBatchHeader == "Invalid batch header."
IndexOutOfBounds == "Index out of bounds."
OtherRevert == "VM Exception while processing transaction: revert"
AlreadyInitialized == "A state transitioner already exists for this pre-state root and transaction."
NotAllCommitted == "All accounts and storage slots must be committed before completing a transition."
NotCompleted == "State transition process must be completed prior to finalization."

\* What a submission can come back with: the answer of the contract, or a
\* revert with a message that no catch of the driver looks for.
Outcomes(result) == {result} \cup otherReverts

\* OVM_FraudVerifier.initializeFraudVerification for the dispute at index i:
\* first writer wins, and the pre-state root must still be on the chain.
InitializeResult(i) ==
    IF disp[i].phase # PhaseNone THEN AlreadyInitialized
    ELSE IF i - 1 >= validTip THEN InvalidBatchHeader
    ELSE Ok

\* OVM_StateTransitioner.proveContractState
ProveContractStateResult(d, a) ==
    IF d.phase # PreExecution THEN PhaseGuard
    ELSE IF a \in d.provenAccounts THEN AccountAlreadyProven
    ELSE Ok

\* OVM_StateTransitioner.proveStorageSlot
ProveStorageSlotResult(d, a, k) ==
    IF d.phase # PreExecution THEN PhaseGuard
    ELSE IF <<a, k>> \in d.provenSlots THEN SlotAlreadyProven
    ELSE Ok

\* OVM_StateTransitioner.applyTransaction
ApplyTransactionResult(d) ==
    IF d.phase # PreExecution THEN PhaseGuard ELSE Ok

\* OVM_StateTransitioner.commitStorageSlot with an inclusion proof generated
\* from the storage trie view trie.
CommitStorageSlotResult(d, a, k, trie) ==
    IF d.phase # PostExecution THEN PhaseGuard
    ELSE IF <<a, k>> \notin changedSlots \/ <<a, k>> \in d.committedSlots
    THEN SlotNotCommittable
    ELSE IF trie # OnChainStorageTrie(d, a) THEN InvalidRootHash
    ELSE Ok

\* OVM_StateTransitioner.commitContractState with an inclusion proof generated
\* from the state trie view trie.
CommitContractStateResult(d, a, trie) ==
    IF d.phase # PostExecution THEN PhaseGuard
    ELSE IF a \notin changedAccounts \/ a \in d.committedAccounts
    THEN AccountNotCommittable
    ELSE IF trie # OnChainStateTrie(d) THEN InvalidRootHash
    ELSE Ok

\* OVM_StateTransitioner.completeTransition
CompleteTransitionResult(d) ==
    IF d.phase # PostExecution THEN PhaseGuard
    ELSE IF TotalUncommittedAccounts(d) > 0 \/ TotalUncommittedContractStorage(d) > 0
    THEN NotAllCommitted
    ELSE Ok

\* OVM_FraudVerifier.finalizeFraudVerification for the dispute at index i: the
\* batch of the post-state root must not have been deleted yet.
FinalizeResult(i) ==
    IF i >= validTip THEN InvalidBatchHeader
    ELSE IF disp[i].phase # Complete THEN NotCompleted
    ELSE Ok

\* What finalizeFraudVerification can come back with: once the batch of the
\* post-state root is deleted the chain rejects its header with either of two
\* messages, according to where the batch was in the chain.
FinalizeOutcomes(i) ==
    IF FinalizeResult(i) = InvalidBatchHeader
    THEN {InvalidBatchHeader, IndexOutOfBounds} \cup otherReverts
    ELSE Outcomes(FinalizeResult(i))

\* The dispute of index i with one more accepted submission of w.
Counted(d, w) ==
    [d EXCEPT !.count[w] = IF @ < 2 THEN @ + 1 ELSE @]


\* ----------------------------------------------------------------- Init

\* A supervisor that never stops the prover.
Unbounded == 0 - 1

\* The states after _init of every prover: the cursor is fromL2TransactionIndex,
\* nothing is in flight, no dispute has been initialized on the chain.
\* for (let i = 0; i < 10; i++) in _init
MaxConnectAttempts == 10

\* _init before its first connection attempt.
NotBooted ==
    [stage |-> "l1", i |-> 0, l1Failed |-> 0, l1Connected |-> FALSE,
     l2Failed |-> 0, l2Connected |-> FALSE]

\* _init after its last statement.
Booted ==
    [stage |-> "ready", i |-> 0, l1Failed |-> 0, l1Connected |-> TRUE,
     l2Failed |-> 0, l2Connected |-> TRUE]

\* this.options.fromL2TransactionIndex || 0
InitialCursor(from) == IF from = 0 THEN 0 ELSE from

InitWith(roots, starts, fromIndexes, runs, transactions, reverts, booting) ==
    /\ l1Root \in roots
    /\ fromL2TransactionIndex \in fromIndexes
    /\ boot = [p \in Provers |-> IF p \in booting THEN NotBooted ELSE Booted]
    /\ otherReverts = reverts
    /\ batchStarts \in starts
    /\ validTip = NumRoots
    /\ disp = [i \in Index |-> NoDispute]
    /\ \E t \in transactions :
          /\ changedAccounts = t.changedAccounts
          /\ changedSlots = t.changedSlots
          /\ stateDiffProof = t.stateDiffProof
    /\ pollsLeft \in runs
    /\ pc = [p \in Provers |-> IF p \in booting THEN "boot" ELSE "sleep"]
    /\ nextUnverifiedStateRoot =
          [p \in Provers |-> IF p \in booting THEN Undefined
                             ELSE InitialCursor(fromL2TransactionIndex)]
    /\ fraudulentStateRootIndex = [p \in Provers |-> Undefined]
    /\ proof = [p \in Provers |-> NoProof]
    /\ idx = [p \in Provers |-> <<0, 0>>]
    /\ nextUncommitted = [p \in Provers |-> 0]
    /\ obs = [p \in Provers |-> NoObs]
    /\ pollStart = nextUnverifiedStateRoot
    /\ outcome = [p \in Provers |-> "none"]
    /\ endPc = [p \in Provers |-> "sleep"]
    /\ accepted = [p \in Provers |-> FALSE]
    /\ wrote = [p \in Provers |-> 0]
    /\ lastResult = [p \in Provers |-> "none"]
    /\ lateStart = [p \in Provers |-> FALSE]
    /\ eventsSeen = [p \in Provers |-> {}]

\* Every publication of state roots: each root is the rollup's or a bad one.
AllRoots ==
    [Index -> {BadRoot} \cup {L2StateRoot(i + l2BlockOffset) : i \in Index}]

PublishedRoots ==
    {r \in AllRoots : \A i \in Index : r[i] \in {BadRoot, L2StateRoot(i + l2BlockOffset)}}

\* Every way the roots were appended in batches.
AllBatchings == {{0} \cup s : s \in SUBSET (1 .. (NumRoots - 1))}

AllSlots == Accounts \X SlotKeys

\* A state-diff proof over the first accounts and the first slots of each.
StateDiffProofOf(accounts, slots) ==
    [accountStateProofs |-> [n \in 1 .. accounts |-> n],
     storageProof |-> [n \in 1 .. slots |-> n]]

\* A transaction that changes every account and slot it touches, with a
\* state-diff proof of all of them.
FullTransaction ==
    [changedAccounts |-> Accounts, changedSlots |-> AllSlots,
     stateDiffProof |-> StateDiffProofOf(NumAccounts, NumSlots)]

\* The same with a state-diff proof that lacks the last account.
AccountGapTransaction ==
    [changedAccounts |-> Accounts,
     changedSlots |-> (1 .. (NumAccounts - 1)) \X SlotKeys,
     stateDiffProof |-> StateDiffProofOf(NumAccounts - 1, NumSlots)]

\* The same with a state-diff proof that lacks the last slot of every account.
SlotGapTransaction ==
    [changedAccounts |-> Accounts, changedSlots |-> AllSlots,
     stateDiffProof |-> StateDiffProofOf(NumAccounts, NumSlots - 1)]

\* A transaction that leaves the first account and every slot as they were.
PartialTransaction ==
    [changedAccounts |-> Accounts \ {1}, changedSlots |-> {},
     stateDiffProof |-> StateDiffProofOf(NumAccounts, NumSlots)]

\* One prover, every publication, batching and starting cursor; a submission
\* can also be answered with a revert that no catch looks for.
Init ==
    InitWith(PublishedRoots, AllBatchings, 0 .. NumRoots,
             {[p \in Provers |-> IF p = 1 THEN Unbounded ELSE 0]},
             {FullTransaction, AccountGapTransaction, SlotGapTransaction},
             {OtherRevert}, {})

statics == <<l1Root, batchStarts, changedAccounts, changedSlots, stateDiffProof,
             otherReverts, pollsLeft>>

Set(f, p, v) == [f EXCEPT ![p] = v]

\* ------------------------------------------------------------ driver loop

\* The dispute the prover works on.
Dispute(p) == disp[fraudulentStateRootIndex[p]]

\* The reads o as far as they are still in scope at position to: the locals
\* of one iteration of the loop of _proveAccountStates end with the iteration.
InScope(o, to) ==
    IF to = "proveSubmit" THEN o
    ELSE IF to \in {"storageFind", "storageSubmit"}
    THEN [o EXCEPT !.hasAccount = FALSE, !.accountCode = Unread,
                   !.ethContractAddress = Unread, !.deployments = 0]
    ELSE [o EXCEPT !.hasAccount = FALSE, !.accountCode = Unread,
                   !.ethContractAddress = Unread, !.deployments = 0,
                   !.storageCommittedEvents = {}]

\* A position change inside one poll, with the reads o.
GotoObs(p, to, i, n, o) ==
    /\ pc' = Set(pc, p, to)
    /\ idx' = Set(idx, p, i)
    /\ nextUncommitted' = Set(nextUncommitted, p, n)
    /\ obs' = Set(obs, p, InScope(o, to))
    /\ eventsSeen' = Set(eventsSeen, p,
           IF to \in {"accountFind", "accountRecheck", "accountSubmit"}
           THEN eventsSeen[p] ELSE {})
    /\ UNCHANGED <<outcome, endPc>>

\* A position change inside one poll that reads nothing new.
Goto(p, to, i, n) == GotoObs(p, to, i, n, obs[p])

\* The poll ends (continue, the end of the try block, or the catch of _start).
EndPoll(p, how) ==
    /\ pc' = Set(pc, p, "sleep")
    /\ idx' = Set(idx, p, <<0, 0>>)
    /\ nextUncommitted' = Set(nextUncommitted, p, 0)
    /\ proof' = Set(proof, p, NoProof)
    /\ obs' = Set(obs, p, NoObs)
    /\ eventsSeen' = Set(eventsSeen, p, {})
    /\ outcome' = Set(outcome, p, how)
    /\ endPc' = Set(endPc, p, pc[p])

\* How a poll ends on a revert that no catch absorbs (the catch of _start logs
\* it): "Revert" for a revert of the contracts as modelled, "OtherRevert" for
\* one with another message.
Reraised(msg) == IF msg = OtherRevert THEN "OtherRevert" ELSE "Revert"

\* The phases of the on-chain writes, in the order of the protocol.
InitWrite == 1
PreWrite == 2
PostWrite == 3
FinalWrite == 4

\* An on-chain submission was made; ok: it was accepted.
Wrote(p, w, ok) == accepted' = Set(accepted, p, accepted[p] \/ ok)

\* What the step adds to the history: a submission of phase rank with result r
\* (rank 0: the step submitted nothing). wrote is the highest phase the prover
\* has submitted a write of in the dispute of the index it works on, over all
\* its polls; lastResult is the result of the last submission of the poll.
Hist(p, rank, r) ==
    /\ wrote' = Set(wrote, p,
           IF fraudulentStateRootIndex'[p] # fraudulentStateRootIndex[p] THEN 0
           ELSE IF rank > wrote[p] THEN rank ELSE wrote[p])
    /\ lastResult' = Set(lastResult, p,
           IF pc'[p] = "sleep" THEN "none"
           ELSE IF rank = 0 THEN lastResult[p] ELSE r)
    /\ UNCHANGED bootVars

\* sleep(pollingInterval), then the call of the scanner.
Poll(p) ==
    /\ pc[p] = "sleep"
    /\ pollsLeft[p] # 0
    /\ pollsLeft' = Set(pollsLeft, p, IF pollsLeft[p] > 0 THEN pollsLeft[p] - 1 ELSE pollsLeft[p])
    /\ pc' = Set(pc, p, "scan")
    /\ pollStart' = Set(pollStart, p, nextUnverifiedStateRoot[p])
    /\ accepted' = Set(accepted, p, FALSE)
    /\ lateStart' = Set(lateStart, p, FALSE)
    /\ UNCHANGED <<chainVars, eventsSeen, obs, nextUnverifiedStateRoot,
                   fraudulentStateRootIndex, proof, idx, nextUncommitted,
                   outcome, endPc>>
    /\ Hist(p, 0, "none")

\* Mutant: the rollup root is read at the index, not at index + l2BlockOffset.
RootsDifferNoOffset(c) == L1StateRoot(c) # L2StateRoot(c)

\* l1StateRoot !== l2StateRoot at the cursor value c.
RootsDiffer(c) == L1StateRoot(c) # L2StateRoot(c + l2BlockOffset)

\* Mutant: the cursor is advanced like a rollup block number.
NextCursorAsBlock(c) == c + l2BlockOffset + 1

\* this.state.nextUnverifiedStateRoot += 1
NextCursor(c) == c + 1

\* One iteration of the while loop of _findNextFraudulentStateRoot.
Scan(p) ==
    /\ pc[p] = "scan"
    /\ LET c == nextUnverifiedStateRoot[p] IN
       IF ~HasStateRootBatchHeader(c)
       THEN /\ EndPoll(p, "miss")
            /\ fraudulentStateRootIndex' = Set(fraudulentStateRootIndex, p, Undefined)
            /\ UNCHANGED nextUnverifiedStateRoot
       ELSE IF RootsDiffer(c)
       THEN /\ Goto(p, "getProof", <<0, 0>>, 0)
            /\ fraudulentStateRootIndex' = Set(fraudulentStateRootIndex, p, c)
            /\ UNCHANGED <<nextUnverifiedStateRoot, proof>>
       ELSE /\ Goto(p, "scan", <<0, 0>>, 0)
            /\ nextUnverifiedStateRoot' = Set(nextUnverifiedStateRoot, p, NextCursor(c))
            /\ UNCHANGED <<fraudulentStateRootIndex, proof>>
    /\ UNCHANGED <<chainVars, pollsLeft, pollStart, accepted, lateStart>>
    /\ Hist(p, 0, "none")

\* l1Provider.getStateRootBatchProof(index)
GetStateRootBatchProof(index) ==
    [stateRoot |-> L1StateRoot(index),
     prevTotalElements |-> PrevTotalElements(index)]

\* Mutant: the pre-state root proof is taken at the disputed index itself.
PreStateRootAtSuspect(transactionIndex) == transactionIndex

\* The index of the pre-state root of transaction transactionIndex.
PreStateRootIndex(transactionIndex) == transactionIndex - 1

\* _getFraudProofData(fraudulentStateRootIndex)
GetFraudProofData(p) ==
    /\ pc[p] = "getProof"
    /\ LET i == fraudulentStateRootIndex[p] IN
       IF HasStateRootBatchHeader(PreStateRootIndex(i)) /\ HasStateRootBatchHeader(i)
       THEN /\ Goto(p, "init", <<0, 0>>, 0)
            /\ proof' = Set(proof, p,
                   [preStateRootProof |-> GetStateRootBatchProof(PreStateRootIndex(i)),
                    stateTrie |-> makeStateTrie,
                    storageTries |-> makeAccountTries])
       ELSE EndPoll(p, "NotFound")
    /\ UNCHANGED <<chainVars, pollsLeft, nextUnverifiedStateRoot,
                   fraudulentStateRootIndex, pollStart, accepted,
                   lateStart>>
    /\ Hist(p, 0, "none")

\* _getStateTransitioner: the address the verifier holds for the dispute, the
\* zero address while nobody has initialized it.
GetStateTransitioner(d) ==
    IF d.phase = PhaseNone THEN ZERO_ADDRESS ELSE "transitioner"

\* Mutant: the zero-address test is inverted.
SkipsInitializeInverted(stateTransitionerAddress) ==
    stateTransitionerAddress = ZERO_ADDRESS

\* if (stateTransitionerAddress !== ZERO_ADDRESS) return
SkipsInitialize(stateTransitionerAddress) ==
    stateTransitionerAddress # ZERO_ADDRESS

\* _initializeFraudVerification up to the zero-address test.
InitQuery(p) ==
    /\ pc[p] = "init"
    /\ LET stateTransitionerAddress == GetStateTransitioner(Dispute(p)) IN
       GotoObs(p, IF SkipsInitialize(stateTransitionerAddress) THEN "load" ELSE "initSubmit",
               <<0, 0>>, 0,
               [obs[p] EXCEPT !.stateTransitionerAddress = stateTransitionerAddress])
    /\ lateStart' = Set(lateStart, p,
                        Dispute(p).count["finalizeFraudVerification"] > 0)
    /\ UNCHANGED <<chainVars, pollsLeft, nextUnverifiedStateRoot,
                   fraudulentStateRootIndex, proof, pollStart, accepted>>
    /\ Hist(p, 0, "none")

\* The submission of initializeFraudVerification; no revert is caught here.
InitSubmit(p) ==
    /\ pc[p] = "initSubmit"
    /\ UNCHANGED <<statics, validTip, nextUnverifiedStateRoot,
                   fraudulentStateRootIndex, pollStart, lateStart>>
    /\ LET i == fraudulentStateRootIndex[p] IN
       \E r \in Outcomes(InitializeResult(i)) :
       /\ Wrote(p, "initializeFraudVerification", r = Ok)
       /\ IF r = Ok
          THEN /\ disp' = [disp EXCEPT ![i] =
                      Counted([@ EXCEPT !.phase = PreExecution],
                              "initializeFraudVerification")]
               /\ Goto(p, "load", <<0, 0>>, 0)
               /\ UNCHANGED proof
          ELSE /\ EndPoll(p, Reraised(r))
               /\ UNCHANGED disp
       /\ Hist(p, InitWrite, r)


\* ----------------------------------------------------------- revert filters

\* Mutant: the catch of the blocks looks for another text.
IsPhaseGuardOtherText(msg) == msg = "Function must be called during the wrong phase."

\* The catch of the PRE_EXECUTION and POST_EXECUTION blocks of _start.
IsPhaseGuard(msg) == msg = PhaseGuard

\* Mutant: the catch around commitContractState misses 'Invalid root hash'.
IsAccountCommitRaceNoRoot(msg) == msg \in {"invalid opcode", AccountNotCommittable}

\* The catch around commitContractState.
IsAccountCommitRace(msg) ==
    msg \in {"invalid opcode", InvalidRootHash, AccountNotCommittable}

\* Mutant: the catch around commitStorageSlot absorbs every revert.
IsSlotCommitRaceAny(msg) == msg # Ok

\* The catch around commitStorageSlot.
IsSlotCommitRace(msg) ==
    msg \in {"invalid opcode", InvalidRootHash, SlotNotCommittable}

\* Mutant: the catch around _finalizeFraudVerification misses
\* 'Invalid batch header.'.
IsFinalizeRaceNoHeader(msg) == msg = IndexOutOfBounds

\* Mutant: the catch around _finalizeFraudVerification misses
\* 'Index out of bounds.'.
IsFinalizeRaceNoBounds(msg) == msg = InvalidBatchHeader

\* The catch around _finalizeFraudVerification.
IsFinalizeRace(msg) == msg \in {InvalidBatchHeader, IndexOutOfBounds}

\* ---------------------------------------------------------- PRE_EXECUTION

Accs == {accountStateProofs[n] : n \in 1 .. Len(accountStateProofs)}

\* _getFraudProofContracts and the first read of the phase.
Load(p) ==
    /\ pc[p] = "load"
    /\ IF Dispute(p).phase = PreExecution
       THEN Goto(p, "proveAccount", <<1, 1>>, 0)
       ELSE Goto(p, "checkPost", <<0, 0>>, 0)
    /\ UNCHANGED <<chainVars, pollsLeft, nextUnverifiedStateRoot,
                   fraudulentStateRootIndex, proof, pollStart, accepted, lateStart>>
    /\ Hist(p, 0, "none")

\* Mutant: after an absorbed phase-guard revert the dispute is retried from
\* the PRE_EXECUTION block.
BlockCatchRestart(p, msg, next) ==
    IF msg = PhaseGuard
    THEN Goto(p, "proveAccount", <<1, 1>>, 0) /\ UNCHANGED proof
    ELSE EndPoll(p, "Revert")

\* A revert thrown out of the PRE_EXECUTION or POST_EXECUTION block: absorbed
\* when it is the phase guard (on to the next read of the phase at next),
\* re-thrown to the catch of the poll otherwise.
BlockCatch(p, msg, next) ==
    IF IsPhaseGuard(msg)
    THEN Goto(p, next, <<0, 0>>, 0) /\ UNCHANGED proof
    ELSE EndPoll(p, Reraised(msg))

\* Mutant: getCode is asked for the block of the pre-state.
CodeBlockPreState(i) == i

\* The rollup block getCode is asked for.
CodeBlock(i) == i + l2BlockOffset

\* The carrier when the account has no code.
SentinelCarrier == "0x0000c0De0000C0DE0000c0de0000C0DE0000c0De"

\* One iteration of the loop of _proveAccountStates up to the submission: the
\* read of hasAccount (logged only), getCode, and the deployment of the code.
ProveAccount(p) ==
    /\ pc[p] = "proveAccount"
    /\ LET i == fraudulentStateRootIndex[p]
           n == idx[p][1]
           a == accountStateProofs[n]
           accountCode == GetCode(a, CodeBlock(i))
           deploys == accountCode # "0x" IN
       GotoObs(p, "proveSubmit", idx[p], 0,
               [obs[p] EXCEPT !.hasAccount = HasAccount(disp[i], a),
                              !.accountCode = accountCode,
                              !.ethContractAddress =
                                  IF deploys THEN ContractAddress(accountCode)
                                  ELSE SentinelCarrier,
                              !.deployments = IF deploys THEN 1 ELSE 0])
    /\ UNCHANGED <<chainVars, pollsLeft, nextUnverifiedStateRoot,
                   fraudulentStateRootIndex, proof, pollStart, accepted, lateStart>>
    /\ Hist(p, 0, "none")

\* proveContractState and its catch.
ProveSubmit(p) ==
    /\ pc[p] = "proveSubmit"
    /\ UNCHANGED <<statics, validTip, nextUnverifiedStateRoot,
                   fraudulentStateRootIndex, pollStart, lateStart>>
    /\ LET i == fraudulentStateRootIndex[p]
           n == idx[p][1]
           a == accountStateProofs[n] IN
       \E r \in Outcomes(ProveContractStateResult(disp[i], a)) :
       /\ Wrote(p, "proveContractState", r = Ok)
       /\ disp' = IF r = Ok
                  THEN [disp EXCEPT ![i].provenAccounts = @ \cup {a}]
                  ELSE disp
       /\ IF r \in {Ok, AccountAlreadyProven}
          THEN /\ IF n < Len(accountStateProofs)
                  THEN Goto(p, "proveAccount", <<n + 1, 1>>, 0)
                  ELSE IF Len(stateDiffProof.storageProof) > 0
                  THEN Goto(p, "proveSlot", <<1, 1>>, 0)
                  ELSE Goto(p, "apply", <<0, 0>>, 0)
               /\ UNCHANGED proof
          ELSE BlockCatch(p, r, "checkPost")
       /\ Hist(p, PreWrite, r)

\* One iteration of the inner loop of _proveContractStorageStates.
ProveSlot(p) ==
    /\ pc[p] = "proveSlot"
    /\ UNCHANGED <<statics, validTip, nextUnverifiedStateRoot,
                   fraudulentStateRootIndex, pollStart, lateStart>>
    /\ LET i == fraudulentStateRootIndex[p]
           n == idx[p][1]
           m == idx[p][2]
           a == accountStateProofs[n]
           k == storageProof(a)[m] IN
       \E r \in Outcomes(ProveStorageSlotResult(disp[i], a, k)) :
       /\ Wrote(p, "proveStorageSlot", r = Ok)
       /\ disp' = IF r = Ok
                  THEN [disp EXCEPT ![i].provenSlots = @ \cup {<<a, k>>}]
                  ELSE disp
       /\ IF r \in {Ok, SlotAlreadyProven}
          THEN /\ IF m < Len(storageProof(a))
                  THEN Goto(p, "proveSlot", <<n, m + 1>>, 0)
                  ELSE IF n < Len(accountStateProofs)
                  THEN Goto(p, "proveSlot", <<n + 1, 1>>, 0)
                  ELSE Goto(p, "apply", <<0, 0>>, 0)
               /\ UNCHANGED proof
          ELSE BlockCatch(p, r, "checkPost")
       /\ Hist(p, PreWrite, r)

\* OVM_StateTransitioner.applyTransaction and the catch of the block.
Apply(p) ==
    /\ pc[p] = "apply"
    /\ UNCHANGED <<statics, validTip, nextUnverifiedStateRoot,
                   fraudulentStateRootIndex, pollStart, lateStart>>
    /\ LET i == fraudulentStateRootIndex[p] IN
       \E r \in Outcomes(ApplyTransactionResult(disp[i])) :
       /\ Wrote(p, "applyTransaction", r = Ok)
       /\ disp' = IF r = Ok
                  THEN [disp EXCEPT ![i] =
                           Counted([@ EXCEPT !.phase = PostExecution],
                                   "applyTransaction")]
                  ELSE disp
       /\ IF r = Ok
          THEN Goto(p, "checkPost", <<0, 0>>, 0) /\ UNCHANGED proof
          ELSE BlockCatch(p, r, "checkPost")
       /\ Hist(p, PreWrite, r)

\* Mutant: the POST_EXECUTION block submits nothing and falls through to the
\* third read of the phase.
PostBlockFallsThrough == "checkComplete"

\* Mutant: the POST_EXECUTION block starts with the account commits.
PostBlockStartsWithAccounts == "accountLoop"

\* The first call of the POST_EXECUTION block: _updateContractStorageStates.
PostBlockStart == "storageLoop"

\* The second read of the phase.
CheckPost(p) ==
    /\ pc[p] = "checkPost"
    /\ IF Dispute(p).phase = PostExecution
       THEN Goto(p, PostBlockStart, <<0, 0>>, 0)
       ELSE Goto(p, "checkComplete", <<0, 0>>, 0)
    /\ UNCHANGED <<chainVars, pollsLeft, nextUnverifiedStateRoot,
                   fraudulentStateRootIndex, proof, pollStart, accepted, lateStart>>
    /\ Hist(p, 0, "none")


\* --------------------------------------------------------- POST_EXECUTION

Min(S) == CHOOSE x \in S : \A y \in S : x <= y

\* The storage tries after the puts of _updateContractStorageStates: every slot
\* of the witness with a ContractStorageCommitted event gets the state manager's
\* value.
PutCommittedSlots(tries, events) ==
    [a \in Accounts |-> [k \in SlotKeys |->
        IF /\ a \in Accs
           /\ \E m \in 1 .. Len(storageProof(a)) : storageProof(a)[m] = k
           /\ <<a, k>> \in events
        THEN encodeSlotValue(PostSlotValue(a, k))
        ELSE tries[a][k]]]

\* Mutant: the put writes the account state of the witness, not the state
\* manager's.
PutWitnessAccounts(trie, events) ==
    [a \in Accounts |->
        IF a \in Accs /\ a \in events
        THEN encodeAccountState(PreAccount(a))
        ELSE trie[a]]

\* The state trie after the puts of _updateAccountStates: every account of the
\* witness with an AccountCommitted event gets the state manager's account.
PutCommittedAccounts(trie, events) ==
    [a \in Accounts |->
        IF a \in Accs /\ a \in events
        THEN encodeAccountState(PostAccount(a))
        ELSE trie[a]]

\* Positions of the slots of account a that are changed and not committed.
UncommittedSlotPositions(d, a) ==
    {m \in 1 .. Len(storageProof(a)) :
        /\ <<a, storageProof(a)[m]>> \notin d.committedSlots
        /\ <<a, storageProof(a)[m]>> \in changedSlots}

\* Positions of the accounts that are changed and not committed.
UncommittedAccountPositions(d) ==
    {n \in 1 .. Len(accountStateProofs) :
        /\ accountStateProofs[n] \notin d.committedAccounts
        /\ accountStateProofs[n] \in changedAccounts}

\* Mutant: the loops stop with one commit left.
StillUncommittedButOne(count) == count > 1

\* The test of the counter in the while loops and in the account sub-loop:
\* (await OVM_StateManager.getTotalUncommitted...()) > 0
StillUncommitted(count) == count > 0

\* The head of the while loop of _updateContractStorageStates: the counter, the
\* event read and the puts.
StorageLoop(p) ==
    /\ pc[p] = "storageLoop"
    /\ LET d == Dispute(p)
           count == TotalUncommittedContractStorage(d)
           o == [obs[p] EXCEPT !.uncommittedStorage = count] IN
       IF StillUncommitted(count)
       THEN /\ GotoObs(p, "storageFind", <<1, 0>>, 0,
                       [o EXCEPT !.storageCommittedEvents = d.committedSlots])
            /\ proof' = Set(proof, p,
                   [proof[p] EXCEPT !.storageTries =
                        PutCommittedSlots(@, d.committedSlots)])
       ELSE /\ GotoObs(p, "accountLoop", <<0, 0>>, 0, o)
            /\ UNCHANGED proof
    /\ UNCHANGED <<chainVars, pollsLeft, nextUnverifiedStateRoot,
                   fraudulentStateRootIndex, pollStart, accepted, lateStart>>
    /\ Hist(p, 0, "none")

\* The for loop over the accounts, up to the next account that has a slot to
\* commit, and the inclusion proof of that slot.
StorageFind(p) ==
    /\ pc[p] = "storageFind"
    /\ LET d == Dispute(p)
           ns == {n \in idx[p][1] .. Len(accountStateProofs) :
                     UncommittedSlotPositions(d, accountStateProofs[n]) # {}} IN
       IF ns = {}
       THEN Goto(p, "storageLoop", <<0, 0>>, 0)
       ELSE LET n == Min(ns)
                a == accountStateProofs[n]
            IN Goto(p, "storageSubmit", <<n, 0>>,
                    storageProof(a)[Min(UncommittedSlotPositions(d, a))])
    /\ UNCHANGED <<chainVars, pollsLeft, nextUnverifiedStateRoot,
                   fraudulentStateRootIndex, proof, pollStart, accepted, lateStart>>
    /\ Hist(p, 0, "none")

\* commitStorageSlot and its catch.
StorageSubmit(p) ==
    /\ pc[p] = "storageSubmit"
    /\ UNCHANGED <<statics, validTip, nextUnverifiedStateRoot,
                   fraudulentStateRootIndex, pollStart, lateStart>>
    /\ LET i == fraudulentStateRootIndex[p]
           n == idx[p][1]
           a == accountStateProofs[n]
           k == nextUncommitted[p] IN
       \E r \in Outcomes(CommitStorageSlotResult(disp[i], a, k, proof[p].storageTries[a])) :
       /\ Wrote(p, "commitStorageSlot", r = Ok)
       /\ disp' = IF r = Ok
                  THEN [disp EXCEPT ![i].committedSlots = @ \cup {<<a, k>>}]
                  ELSE disp
       /\ IF r = Ok \/ IsSlotCommitRace(r)
          THEN /\ IF n < Len(accountStateProofs)
                  THEN Goto(p, "storageFind", <<n + 1, 0>>, 0)
                  ELSE Goto(p, "storageLoop", <<0, 0>>, 0)
               /\ UNCHANGED proof
          ELSE BlockCatch(p, r, "checkComplete")
       /\ Hist(p, PostWrite, r)

\* The head of the while loop of _updateAccountStates: the counter, the event
\* read and the puts.
AccountLoop(p) ==
    /\ pc[p] = "accountLoop"
    /\ LET d == Dispute(p)
           count == TotalUncommittedAccounts(d)
           o == [obs[p] EXCEPT !.uncommittedAccounts = count] IN
       IF StillUncommitted(count)
       THEN /\ pc' = Set(pc, p, "accountFind")
            /\ eventsSeen' = Set(eventsSeen, p, d.committedAccounts)
            /\ obs' = Set(obs, p, o)
            /\ idx' = Set(idx, p, <<1, 0>>)
            /\ UNCHANGED nextUncommitted
            /\ proof' = Set(proof, p,
                   [proof[p] EXCEPT !.stateTrie =
                        PutCommittedAccounts(@, d.committedAccounts)])
       ELSE /\ GotoObs(p, "complete", <<0, 0>>, 0, o)
            /\ UNCHANGED <<proof>>
    /\ UNCHANGED <<chainVars, pollsLeft, nextUnverifiedStateRoot,
                   fraudulentStateRootIndex, pollStart, outcome, endPc, accepted, lateStart>>
    /\ Hist(p, 0, "none")

\* One test of the search for nextUncommittedAccount (wasAccountChanged and
\* wasAccountCommitted of one account of the witness), and the inclusion proof
\* when the test succeeds.
AccountFind(p) ==
    /\ pc[p] = "accountFind"
    /\ LET n == idx[p][1] IN
       IF n \in UncommittedAccountPositions(Dispute(p))
       THEN Goto(p, "accountSubmit", <<n, 0>>, accountStateProofs[n])
       ELSE IF n < Len(accountStateProofs)
       THEN Goto(p, "accountFind", <<n + 1, 0>>, 0)
       ELSE Goto(p, "accountRecheck", <<0, 0>>, 0)
    /\ UNCHANGED <<chainVars, pollsLeft, nextUnverifiedStateRoot,
                   fraudulentStateRootIndex, proof, pollStart, accepted,
                   lateStart>>
    /\ Hist(p, 0, "none")

\* Mutant: the sub-loop returns whatever the counter says.
NeverInsufficient(count) == count < 0

\* Mutant: an empty search is an error whatever the counter says.
EmptySearchInsufficient(count) == count >= 0

\* if ((await OVM_StateManager.getTotalUncommittedAccounts()) > 0) throw
WitnessInsufficient(count) == count > 0

\* nextUncommittedAccount === undefined: the second read of the counter, and
\* the error or the return.
AccountRecheck(p) ==
    /\ pc[p] = "accountRecheck"
    /\ LET count == TotalUncommittedAccounts(Dispute(p)) IN
       IF WitnessInsufficient(count)
       THEN EndPoll(p, "Inconsistent")
       ELSE /\ GotoObs(p, "complete", <<0, 0>>, 0,
                       [obs[p] EXCEPT !.uncommittedAccounts = count])
            /\ UNCHANGED proof
    /\ UNCHANGED <<chainVars, pollsLeft, nextUnverifiedStateRoot,
                   fraudulentStateRootIndex, pollStart, accepted,
                   lateStart>>
    /\ Hist(p, 0, "none")

\* Mutant: after a commit the search runs again on the events already read.
AfterAccountCommitNoRead == "accountFind"

\* After the try/catch of commitContractState the body of the while loop is
\* over: the next step is its test, and then the event read.
AfterAccountCommit == "accountLoop"

\* commitContractState and its catch.
AccountSubmit(p) ==
    /\ pc[p] = "accountSubmit"
    /\ UNCHANGED <<statics, validTip, nextUnverifiedStateRoot,
                   fraudulentStateRootIndex, pollStart, lateStart>>
    /\ LET i == fraudulentStateRootIndex[p]
           a == nextUncommitted[p] IN
       \E r \in Outcomes(CommitContractStateResult(disp[i], a, proof[p].stateTrie)) :
       /\ Wrote(p, "commitContractState", r = Ok)
       /\ disp' = IF r = Ok
                  THEN [disp EXCEPT ![i].committedAccounts = @ \cup {a}]
                  ELSE disp
       /\ IF r = Ok \/ IsAccountCommitRace(r)
          THEN Goto(p, AfterAccountCommit, <<0, 0>>, 0) /\ UNCHANGED proof
          ELSE BlockCatch(p, r, "checkComplete")
       /\ Hist(p, PostWrite, r)

\* OVM_StateTransitioner.completeTransition and the catch of the block.
CompleteTransition(p) ==
    /\ pc[p] = "complete"
    /\ UNCHANGED <<statics, validTip, nextUnverifiedStateRoot,
                   fraudulentStateRootIndex, pollStart, lateStart>>
    /\ LET i == fraudulentStateRootIndex[p] IN
       \E r \in Outcomes(CompleteTransitionResult(disp[i])) :
       /\ Wrote(p, "completeTransition", r = Ok)
       /\ disp' = IF r = Ok
                  THEN [disp EXCEPT ![i] =
                           Counted([@ EXCEPT !.phase = Complete], "completeTransition")]
                  ELSE disp
       /\ IF r = Ok
          THEN Goto(p, "checkComplete", <<0, 0>>, 0) /\ UNCHANGED proof
          ELSE BlockCatch(p, r, "checkComplete")
       /\ Hist(p, PostWrite, r)

\* ---------------------------------------------------------------- COMPLETE

\* Mutant: the cursor is moved past the disputed index.
RewindPastSuspect(p) == fraudulentStateRootIndex[p] + 1

\* The value the cursor is set to at the end of a dispute.
RewindTarget(p) == proof[p].preStateRootProof.prevTotalElements

\* The assignment of nextUnverifiedStateRoot that ends the try block.
Rewind(p) ==
    /\ EndPoll(p, "done")
    /\ nextUnverifiedStateRoot' = Set(nextUnverifiedStateRoot, p, RewindTarget(p))

\* The third read of the phase.
CheckComplete(p) ==
    /\ pc[p] = "checkComplete"
    /\ IF Dispute(p).phase = Complete
       THEN Goto(p, "finalize", <<0, 0>>, 0)
            /\ UNCHANGED <<proof, nextUnverifiedStateRoot>>
       ELSE Rewind(p)
    /\ UNCHANGED <<chainVars, pollsLeft, fraudulentStateRootIndex, pollStart,
                   accepted, lateStart>>
    /\ Hist(p, 0, "none")

\* _finalizeFraudVerification, its catch, and the rewind.
Finalize(p) ==
    /\ pc[p] = "finalize"
    /\ UNCHANGED <<statics, fraudulentStateRootIndex, pollStart, lateStart>>
    /\ LET i == fraudulentStateRootIndex[p] IN
       \E r \in FinalizeOutcomes(i) :
       /\ Wrote(p, "finalizeFraudVerification", r = Ok)
       /\ disp' = IF r = Ok
                  THEN [disp EXCEPT ![i] = Counted(@, "finalizeFraudVerification")]
                  ELSE disp
       /\ validTip' = IF r = Ok THEN PrevTotalElements(i) ELSE validTip
       /\ IF r = Ok \/ IsFinalizeRace(r)
          THEN Rewind(p)
          ELSE EndPoll(p, Reraised(r)) /\ UNCHANGED nextUnverifiedStateRoot
       /\ Hist(p, FinalWrite, r)

\* Mutant: the catch of _start skips the index whose poll failed.
FailAdvances(p) ==
    /\ pc[p] # "sleep"
    /\ EndPoll(p, "Transport")
    /\ nextUnverifiedStateRoot' =
           Set(nextUnverifiedStateRoot, p, nextUnverifiedStateRoot[p] + 1)
    /\ UNCHANGED <<chainVars, pollsLeft, fraudulentStateRootIndex, pollStart,
                   accepted, lateStart>>
    /\ Hist(p, 0, "none")

\* Mutant: the catch of _start puts the cursor back where the poll began.
FailRestores(p) ==
    /\ pc[p] # "sleep"
    /\ EndPoll(p, "Transport")
    /\ nextUnverifiedStateRoot' =
           Set(nextUnverifiedStateRoot, p, pollStart[p])
    /\ UNCHANGED <<chainVars, pollsLeft, fraudulentStateRootIndex, pollStart,
                   accepted, lateStart>>
    /\ Hist(p, 0, "none")

\* An RPC of the poll fails (Transport): the catch of _start logs it.
Fail(p) ==
    /\ pc[p] # "sleep"
    /\ EndPoll(p, "Transport")
    /\ UNCHANGED <<chainVars, pollsLeft, nextUnverifiedStateRoot,
                   fraudulentStateRootIndex, pollStart, accepted,
                   lateStart>>
    /\ Hist(p, 0, "none")

\* ------------------------------------------------------------------- Next

Step(p) ==
    \/ Poll(p)
    \/ Scan(p)
    \/ GetFraudProofData(p)
    \/ InitQuery(p)
    \/ InitSubmit(p)
    \/ Load(p)
    \/ ProveAccount(p)
    \/ ProveSubmit(p)
    \/ ProveSlot(p)
    \/ Apply(p)
    \/ CheckPost(p)
    \/ StorageLoop(p)
    \/ StorageFind(p)
    \/ StorageSubmit(p)
    \/ AccountLoop(p)
    \/ AccountFind(p)
    \/ AccountRecheck(p)
    \/ AccountSubmit(p)
    \/ CompleteTransition(p)
    \/ CheckComplete(p)
    \/ Finalize(p)
    \/ Fail(p)

Next == \E p \in Provers : Step(p)

\* ------------------------------------------------------------------ _init

\* Everything _init leaves alone until its last statement.
driverVars == <<chainVars, pollsLeft, fraudulentStateRootIndex, proof, idx,
                nextUncommitted, obs, histVars, fromL2TransactionIndex>>

\* Mutant: the catch of a connection attempt sleeps and retries once more often.
CanRetryOnceMore(i) == i < 10

\* if (i < 9) in the catch of a connection attempt: sleep and try again.
CanRetry(i) == i < 9

\* One pass of a connection loop of _init at loop index b.i: the attempt
\* succeeded (break) or failed (retry, leave the loop, or throw).
ConnectionAttempt(b, ok, next, failed) ==
    IF ok THEN [b EXCEPT !.stage = next, !.i = 0]
    ELSE IF ~CanRetry(b.i) THEN [failed EXCEPT !.stage = "fatal"]
    ELSE IF b.i + 1 < MaxConnectAttempts THEN [failed EXCEPT !.i = b.i + 1]
    ELSE [failed EXCEPT !.stage = next, !.i = 0]

\* One pass of the loop around l1RpcProvider.detectNetwork().
ConnectL1(p) ==
    /\ pc[p] = "boot" /\ boot[p].stage = "l1"
    /\ \E ok \in BOOLEAN :
          boot' = Set(boot, p,
              ConnectionAttempt([boot[p] EXCEPT !.l1Connected = ok], ok, "l2",
                                [boot[p] EXCEPT !.l1Failed = @ + 1]))
    /\ UNCHANGED <<driverVars, pc, nextUnverifiedStateRoot>>

\* One pass of the loop around l2RpcProvider.detectNetwork().
ConnectL2(p) ==
    /\ pc[p] = "boot" /\ boot[p].stage = "l2"
    /\ \E ok \in BOOLEAN :
          boot' = Set(boot, p,
              ConnectionAttempt([boot[p] EXCEPT !.l2Connected = ok], ok, "contracts",
                                [boot[p] EXCEPT !.l2Failed = @ + 1]))
    /\ UNCHANGED <<driverVars, pc, nextUnverifiedStateRoot>>

\* The rest of _init: the address manager and the three contracts are loaded
\* (an RPC of it can fail, which ends _init), then the cursor is set.
LoadContracts(p) ==
    /\ pc[p] = "boot" /\ boot[p].stage = "contracts"
    /\ \E ok \in BOOLEAN :
          IF ok
          THEN /\ boot' = Set(boot, p, [boot[p] EXCEPT !.stage = "ready"])
               /\ pc' = Set(pc, p, "sleep")
               /\ nextUnverifiedStateRoot' =
                      Set(nextUnverifiedStateRoot, p,
                          InitialCursor(fromL2TransactionIndex))
          ELSE /\ boot' = Set(boot, p, [boot[p] EXCEPT !.stage = "failed"])
               /\ UNCHANGED <<pc, nextUnverifiedStateRoot>>
    /\ UNCHANGED driverVars

NextBoot == \E p \in Provers : ConnectL1(p) \/ ConnectL2(p) \/ LoadContracts(p)

\* One prover at the start of _init, for every fromL2TransactionIndex.
InitBoot ==
    InitWith({[i \in Index |-> IF i = 1 THEN BadRoot ELSE L2StateRoot(i + l2BlockOffset)]},
             {{0}}, 0 .. NumRoots, {[p \in Provers |-> IF p = 1 THEN Unbounded ELSE 0]},
             {FullTransaction}, {}, {1})

SpecBoot == InitBoot /\ [][NextBoot]_vars

Spec == Init /\ [][Next]_vars

\* Two provers, of MaxPolls polls (the first of one more), on one publication:
\* a bad root at index 1, one batch; the transaction changes every account or
\* all but the first, and every slot or none; the chain answers a submission
\* as the contracts do.
InitRace ==
    InitWith({[i \in Index |-> IF i = 1 THEN BadRoot ELSE L2StateRoot(i + l2BlockOffset)]},
             {{0}}, {0}, {[p \in Provers |-> IF p = 1 THEN MaxPolls + 1 ELSE MaxPolls]},
             {FullTransaction, PartialTransaction}, {}, {})

SpecRace == InitRace /\ [][Next]_vars


\* ================================================================== claims

PreWritePcs == {"proveSubmit", "proveSlot", "apply"}
PostWritePcs == {"storageSubmit", "accountSubmit", "complete"}
TopWritePcs == {"initSubmit", "apply", "complete", "finalize"}
Errors == {"Transport", "NotFound", "Revert", "OtherRevert", "Inconsistent"}
CommitInvalidations == {"invalid opcode", InvalidRootHash, AccountNotCommittable}

\* The two roots of index j disagree.
Mismatch(j) == l1Root[j] # L2StateRoot(j + l2BlockOffset)

\* The least index from c on that has a header, like every index from c to it,
\* and whose roots disagree; Undefined when there is none.
FirstMismatch(c) ==
    LET js == {j \in Index : /\ j >= c
                             /\ \A k \in c .. j : HasStateRootBatchHeader(k)
                             /\ Mismatch(j)}
    IN IF js = {} THEN Undefined ELSE Min(js)

\* The least index from c on that has no header.
FirstWithoutHeader(c) ==
    Min({j \in c .. (NumRoots + 1) : ~HasStateRootBatchHeader(j)})

\* C1: the index the scanner returns is the first index, from the cursor of the
\* poll on, whose roots disagree (never one whose roots are equal), and the
\* scanner returns nothing only when there is no such index before the first
\* index without a header.
C1_ScannerReturnsFirstMismatch ==
    \A p \in Provers :
        /\ pc[p] = "getProof" =>
              /\ fraudulentStateRootIndex[p] = FirstMismatch(pollStart[p])
              /\ Mismatch(fraudulentStateRootIndex[p])
        /\ (pc[p] = "sleep" /\ outcome[p] = "miss") =>
              /\ FirstMismatch(pollStart[p]) = Undefined
              /\ fraudulentStateRootIndex[p] = Undefined

\* C1 witness: the scanner has returned an index after stepping over equal roots.
C1_Witness ==
    \E p \in Provers :
        pc[p] = "getProof" /\ fraudulentStateRootIndex[p] > pollStart[p]

\* C2 (as claimed): no submission of initializeFraudVerification,
\* applyTransaction, completeTransition or finalizeFraudVerification is accepted
\* twice for one dispute, and no prover's poll is aborted by the revert of one
\* of them.
C2_RaceAbsorbed ==
    /\ \A i \in Index : \A w \in TopWrites : disp[i].count[w] <= 1
    /\ \A p \in Provers :
          ~(pc[p] = "sleep" /\ outcome[p] = "Revert" /\ endPc[p] \in TopWritePcs)

\* C3: once the driver has processed the AccountCommitted events it read, the
\* state trie view holds the state manager's account for every account that was
\* committed at that read, and it is the transitioner's working trie as of
\* that read.
C3_TrieTracksCommits ==
    \A p \in Provers :
        pc[p] \in {"accountFind", "accountSubmit"} =>
            /\ \A a \in eventsSeen[p] :
                  proof[p].stateTrie[a] = encodeAccountState(PostAccount(a))
            /\ proof[p].stateTrie =
                  OnChainStateTrie([Dispute(p) EXCEPT !.committedAccounts = eventsSeen[p]])

\* C3 witness: the events the driver processed hold an account that another
\* prover committed.
C3_Witness ==
    \E p \in Provers :
        pc[p] = "accountFind" /\ eventsSeen[p] # {} /\ ~accepted[p]

\* C4: the cursor decreases only in the rewind that ends a dispute, and the
\* rewind sets it to at most the disputed index, the value it had when the
\* dispute started.
C4_CursorMonotoneExceptRewind ==
    [][\A p \in Provers :
          LET rewind == /\ pc[p] \in {"checkComplete", "finalize"}
                        /\ pc'[p] = "sleep"
                        /\ outcome'[p] = "done"
          IN /\ nextUnverifiedStateRoot'[p] < nextUnverifiedStateRoot[p] => rewind
             /\ rewind =>
                   /\ nextUnverifiedStateRoot[p] = fraudulentStateRootIndex[p]
                   /\ nextUnverifiedStateRoot'[p] <= fraudulentStateRootIndex[p]]_vars

\* C4 witness: a dispute has ended and the cursor is below the disputed index.
C4_Witness ==
    \E p \in Provers :
        /\ pc[p] = "sleep" /\ outcome[p] = "done"
        /\ nextUnverifiedStateRoot[p] < fraudulentStateRootIndex[p]

\* C5 (as claimed): after a successful dispute the cursor is prevTotalElements
\* of the batch that contains the disputed index.
C5_RewindToBatchOfSuspect ==
    \A p \in Provers :
        (pc[p] = "sleep" /\ outcome[p] = "done") =>
            nextUnverifiedStateRoot[p] = PrevTotalElements(fraudulentStateRootIndex[p])

\* C5 (amended): after a successful dispute the cursor is prevTotalElements of
\* the batch that contains the pre-state root, the index before the disputed one.
C5_RewindToBatchOfPreStateRoot ==
    \A p \in Provers :
        (pc[p] = "sleep" /\ outcome[p] = "done") =>
            /\ fraudulentStateRootIndex[p] >= 1
            /\ nextUnverifiedStateRoot[p] =
                  PrevTotalElements(fraudulentStateRootIndex[p] - 1)

\* C5 witness: a successful dispute of the first root of a batch.
C5_Witness ==
    \E p \in Provers :
        /\ pc[p] = "sleep" /\ outcome[p] = "done"
        /\ PrevTotalElements(fraudulentStateRootIndex[p]) = fraudulentStateRootIndex[p]

\* C6 (as claimed): a poll in which the scanner returns nothing leaves the
\* cursor at the value it had before the poll.
C6_MissKeepsCursor ==
    \A p \in Provers :
        (pc[p] = "sleep" /\ outcome[p] = "miss") =>
            nextUnverifiedStateRoot[p] = pollStart[p]

\* C6 (amended): the scanner returns nothing exactly when the roots agree from
\* the cursor to the last index with a header; such a poll submits nothing,
\* changes nothing on the chain, and leaves the cursor at the first index
\* without a header.
C6_MissAdvancesToTip ==
    [][\A p \in Provers :
          /\ (pc[p] = "scan" /\ pc'[p] = "getProof") =>
                FirstMismatch(pollStart[p]) # Undefined
          /\ (pc[p] = "scan" /\ pc'[p] = "sleep" /\ outcome'[p] = "miss") =>
                /\ FirstMismatch(pollStart[p]) = Undefined
                /\ chainVars' = chainVars
                /\ lastResult[p] = "none" /\ ~accepted'[p]
                /\ nextUnverifiedStateRoot'[p] = FirstWithoutHeader(pollStart[p])
                /\ nextUnverifiedStateRoot'[p] >= pollStart[p]]_vars

\* C6 witness: the scanner returned nothing after stepping over equal roots.
C6_Witness ==
    \E p \in Provers :
        /\ pc[p] = "sleep" /\ outcome[p] = "miss"
        /\ nextUnverifiedStateRoot[p] > pollStart[p]

\* C7: a poll that ends with an error after the scanner returned index i leaves
\* the cursor at i, and the scanner of the next poll returns i again.
C7_ErrorKeepsCursor ==
    [][\A p \in Provers :
          /\ (pc[p] \notin {"sleep", "scan"} /\ pc'[p] = "sleep"
                /\ outcome'[p] \in Errors) =>
                nextUnverifiedStateRoot'[p] = fraudulentStateRootIndex[p]
          /\ (pc[p] = "scan" /\ pc'[p] = "getProof"
                /\ outcome[p] \in Errors /\ endPc[p] # "scan") =>
                fraudulentStateRootIndex'[p] = fraudulentStateRootIndex[p]]_vars

\* C7 witness: after a poll that failed in the POST_EXECUTION writes, the next
\* poll has selected an index.
C7_Witness ==
    \E p \in Provers :
        pc[p] = "getProof" /\ outcome[p] \in Errors /\ endPc[p] \in PostWritePcs

\* C8: a run of the phase driver that begins after the dispute was finalized has
\* no submission accepted, ends without an error of its own (only an RPC failure
\* can end it early), and sets the cursor to prevTotalElements of the batch of
\* the pre-state root, like the first run.
C8_SecondRunIdempotent ==
    \A p \in Provers :
        lateStart[p] =>
            /\ ~accepted[p]
            /\ pc[p] = "sleep" => outcome[p] \in {"done", "Transport"}
            /\ (pc[p] = "sleep" /\ outcome[p] = "done") =>
                  nextUnverifiedStateRoot[p] =
                      PrevTotalElements(fraudulentStateRootIndex[p] - 1)

\* C8 witness: a run that began after the dispute was finalized has ended.
C8_Witness ==
    \E p \in Provers :
        lateStart[p] /\ pc[p] = "sleep" /\ outcome[p] = "done"

\* C9: in the dispute of one index, over all the polls of a prover and under
\* every interleaving with the other prover: a prover about to submit a
\* PRE_EXECUTION write has submitted no POST_EXECUTION write and no finalize, one
\* about to submit a POST_EXECUTION write has submitted no finalize, and one
\* about to submit initializeFraudVerification has submitted nothing later.
C9_PhaseOnlyForward ==
    \A p \in Provers :
        /\ pc[p] = "initSubmit" => wrote[p] <= InitWrite
        /\ pc[p] \in PreWritePcs => wrote[p] <= PreWrite
        /\ pc[p] \in PostWritePcs => wrote[p] <= PostWrite

\* C9 witness: a prover that has submitted POST_EXECUTION writes is at the
\* second read of the phase again, in a later poll of the same dispute, while
\* the other prover is about to submit a POST_EXECUTION write.
C9_Witness ==
    \E p, q \in Provers :
        /\ pc[p] = "checkPost" /\ wrote[p] = PostWrite
        /\ pc[q] \in PostWritePcs /\ wrote[q] >= PreWrite

\* C10: a commitContractState never ends the dispute with a revert; after a
\* commit-invalidation revert the driver is back at the head of the account
\* loop; and a submission made when no account was committed since the
\* driver's event read is accepted.
C10_CommitRaceRetried ==
    [][\A p \in Provers :
          (pc[p] = "accountSubmit" /\ pc'[p] # "accountSubmit") =>
              /\ pc'[p] = "sleep" => outcome'[p] = "Transport"
              /\ (pc'[p] # "sleep" /\ lastResult'[p] \in CommitInvalidations) =>
                    pc'[p] = "accountLoop"
              /\ (pc'[p] # "sleep"
                    /\ eventsSeen[p] = Dispute(p).committedAccounts) =>
                    /\ lastResult'[p] = Ok
                    /\ nextUncommitted[p] \notin Dispute(p).committedAccounts
                    /\ nextUncommitted[p] \in
                          disp'[fraudulentStateRootIndex[p]].committedAccounts]_vars

\* C10 witness: after an 'Invalid root hash' revert the driver has read the
\* events again, with the other prover's commit among them, and is about to
\* resubmit with no commit since that read.
C10_Witness ==
    \E p \in Provers :
        /\ pc[p] = "accountSubmit"
        /\ lastResult[p] = InvalidRootHash
        /\ eventsSeen[p] # {}
        /\ eventsSeen[p] = Dispute(p).committedAccounts


\* The dispute of index i has run to its end on the chain: the transitioner is
\* COMPLETE, no top-level write was accepted twice, and the batch of the
\* disputed root is deleted.
Finalized(i) ==
    /\ disp[i].phase = Complete
    /\ \A w \in TopWrites : disp[i].count[w] <= 1
    /\ \A w \in TopWrites \ {"finalizeFraudVerification"} : disp[i].count[w] = 1
    /\ validTip <= PrevTotalElements(i)

\* C11: the driver goes on to submit initializeFraudVerification exactly when
\* its query of the verifier returned the zero address; with a non-zero address
\* it goes on to the phases without an initialize, and a dispute it ends then
\* leaves the chain and the cursor as one it initialized itself: the dispute
\* finalized, the cursor at prevTotalElements of the batch of the pre-state root.
C11_InitializeIffZeroAddress ==
    [][\A p \in Provers :
          /\ (pc[p] = "init" /\ pc'[p] \notin {"init", "sleep"}) =>
                /\ pc'[p] = "initSubmit" <=>
                      obs'[p].stateTransitionerAddress = ZERO_ADDRESS
                /\ pc'[p] = "load" <=>
                      obs'[p].stateTransitionerAddress # ZERO_ADDRESS
                /\ obs'[p].stateTransitionerAddress = ZERO_ADDRESS <=>
                      Dispute(p).phase = PhaseNone
          /\ pc'[p] = "initSubmit" => pc[p] \in {"init", "initSubmit"}
          /\ (pc[p] = "initSubmit" /\ pc'[p] \notin {"initSubmit", "sleep"}) => pc'[p] = "load"
          /\ (pc[p] # "sleep" /\ pc'[p] = "sleep" /\ outcome'[p] = "done") =>
                /\ obs[p].stateTransitionerAddress # Unread
                /\ Finalized(fraudulentStateRootIndex[p])'
                /\ nextUnverifiedStateRoot'[p] =
                      PrevTotalElements(fraudulentStateRootIndex[p] - 1)]_vars

\* C11 witness: a prover whose query returned a non-zero address is about to
\* finalize the dispute itself, after writes of its own were accepted.
C11_Witness ==
    \E p \in Provers :
        /\ pc[p] = "finalize"
        /\ obs[p].stateTransitionerAddress \notin {ZERO_ADDRESS, Unread}
        /\ accepted[p]
        /\ Dispute(p).count["finalizeFraudVerification"] = 0


\* The account of the iteration of _proveAccountStates the prover is in.
CurrentAccount(p) == accountStateProofs[idx[p][1]]

\* C12: when the driver is about to submit proveContractState for an account,
\* it has issued a deployment transaction in this iteration exactly when the
\* rollup's code of the account at block i + l2BlockOffset is not empty, and the
\* carrier it passes is the deployed contract's address then and the sentinel
\* address otherwise; no deployment is issued anywhere else.
C12_DeploysIffCode ==
    \A p \in Provers :
        LET code == GetCode(CurrentAccount(p), fraudulentStateRootIndex[p] + l2BlockOffset)
        IN IF pc[p] = "proveSubmit"
           THEN /\ obs[p].accountCode = code
                /\ obs[p].deployments = 1 <=> code # "0x"
                /\ obs[p].deployments = 0 <=> code = "0x"
                /\ code # "0x" => obs[p].ethContractAddress = ContractAddress(code)
                /\ code = "0x" => obs[p].ethContractAddress =
                                      "0x0000c0De0000C0DE0000c0de0000C0DE0000c0De"
           ELSE obs[p].deployments = 0

\* C12 witness: the driver has deployed the code of the second account after
\* it proved the first, which has none, with the sentinel.
C12_Witness ==
    \E p \in Provers :
        /\ pc[p] = "proveSubmit" /\ idx[p][1] = 2
        /\ obs[p].deployments = 1
        /\ GetCode(accountStateProofs[1], fraudulentStateRootIndex[p] + l2BlockOffset) = "0x"
        /\ accountStateProofs[1] \in Dispute(p).provenAccounts

\* C14 (as claimed): for an account whose hasAccount read returned true the
\* driver issues no deployment transaction and no proveContractState.
C14_SkipsProvenAccount ==
    \A p \in Provers :
        obs[p].hasAccount => (pc[p] # "proveSubmit" /\ obs[p].deployments = 0)


\* No account of the state-diff proof is changed and not yet committed.
NoAccountToCommit(d) ==
    \A n \in 1 .. Len(accountStateProofs) :
        accountStateProofs[n] \notin changedAccounts \ d.committedAccounts

\* C13: the account sub-loop reads the counter a second time exactly when no
\* account of the state-diff proof is changed and not yet committed; when that
\* read is positive the poll ends there with the Inconsistent error (or an RPC
\* failure), and it ends without a further submission, without a change on the
\* chain and with the cursor still at the disputed index.
C13_InconsistentEndsPoll ==
    [][\A p \in Provers :
          /\ (pc[p] = "accountFind" /\ pc'[p] \notin {"accountFind", "sleep"}) =>
                (pc'[p] = "accountRecheck" <=> NoAccountToCommit(Dispute(p)))
          /\ (pc[p] = "accountRecheck" /\ pc'[p] # "accountRecheck"
                /\ TotalUncommittedAccounts(Dispute(p)) > 0) =>
                /\ pc'[p] = "sleep"
                /\ outcome'[p] \in {"Inconsistent", "Transport"}
          /\ (pc'[p] = "sleep" /\ outcome'[p] = "Inconsistent"
                /\ pc[p] # "sleep") =>
                /\ pc[p] = "accountRecheck"
                /\ TotalUncommittedAccounts(Dispute(p)) > 0
                /\ chainVars' = chainVars
                /\ accepted'[p] = accepted[p]
                /\ nextUnverifiedStateRoot'[p] = fraudulentStateRootIndex[p]
                /\ nextUnverifiedStateRoot'[p] = nextUnverifiedStateRoot[p]]_vars

\* C13 witness: a poll that had a commit accepted has ended with Inconsistent.
C13_Witness ==
    \E p \in Provers :
        /\ pc[p] = "sleep" /\ outcome[p] = "Inconsistent"
        /\ endPc[p] = "accountRecheck" /\ accepted[p]


\* No slot of the state-diff proof is changed and not yet committed.
NoSlotToCommit(d) ==
    \A n \in 1 .. Len(accountStateProofs) :
        UncommittedSlotPositions(d, accountStateProofs[n]) = {}

\* C15: a pass of the storage sub-loop that finds no slot of the state-diff
\* proof changed and not yet committed, while the uncommitted-storage counter
\* is positive, ends the poll with the Inconsistent error (or an RPC failure).
C15_StorageGapEndsPoll ==
    [][\A p \in Provers :
          (/\ pc[p] = "storageFind" /\ idx[p][1] = 1
           /\ NoSlotToCommit(Dispute(p))
           /\ TotalUncommittedContractStorage(Dispute(p)) > 0
           /\ pc'[p] # "storageFind") =>
             /\ pc'[p] = "sleep"
             /\ outcome'[p] \in {"Inconsistent", "Transport"}]_vars


\* The latest reads of both counters in this poll were zero.
ReadBothZero(p) ==
    /\ obs[p].uncommittedStorage = 0
    /\ obs[p].uncommittedAccounts = 0

\* C16: completeTransition is submitted only by a prover whose latest reads of
\* getTotalUncommittedContractStorage and getTotalUncommittedAccounts in the
\* current dispute were both zero, and a transitioner enters COMPLETE only
\* through such a submission.
C16_CompleteAfterZeroCounters ==
    [][/\ \A p \in Provers :
             (pc[p] = "complete" /\ pc'[p] # "complete") => ReadBothZero(p)
       /\ \A i \in DOMAIN disp :
             (disp[i].phase # Complete /\ disp'[i].phase = Complete) =>
                \E p \in Provers :
                    /\ pc[p] = "complete" /\ pc'[p] # "complete"
                    /\ fraudulentStateRootIndex[p] = i
                    /\ ReadBothZero(p)]_vars

\* C16 witness: completeTransition was accepted after commits of this poll.
C16_Witness ==
    \E p \in Provers :
        /\ pc[p] = "checkComplete" /\ lastResult[p] = Ok
        /\ Dispute(p).phase = Complete
        /\ Dispute(p).committedAccounts # {}
        /\ Dispute(p).committedSlots # {}
        /\ accepted[p]


\* The slots of account a among a set of (address, key) pairs.
SlotsOf(pairs, a) == {k \in SlotKeys : <<a, k>> \in pairs}

\* C17: with one prover submitting, every inclusion proof is computed from a
\* trie that has the puts of an event list read after the last commit made
\* from that trie: at a commitContractState the AccountCommitted events in hand
\* are all the commits of the dispute and the state trie holds their accounts,
\* and at a commitStorageSlot for an account the ContractStorageCommitted
\* events in hand cover all the committed slots of that account and its
\* storage trie holds their values.
C17_EventsReadBeforeEachProof ==
    \A p \in Provers :
        /\ pc[p] = "accountSubmit" =>
              /\ eventsSeen[p] = Dispute(p).committedAccounts
              /\ \A a \in Accs \cap Dispute(p).committedAccounts :
                    a \in {accountStateProofs[n] : n \in 1 .. Len(accountStateProofs)} =>
                        proof[p].stateTrie[a] = encodeAccountState(PostAccount(a))
        /\ pc[p] = "storageSubmit" =>
              LET a == accountStateProofs[idx[p][1]] IN
              /\ SlotsOf(obs[p].storageCommittedEvents, a)
                    = SlotsOf(Dispute(p).committedSlots, a)
              /\ \A m \in 1 .. Len(storageProof(a)) :
                    <<a, storageProof(a)[m]>> \in Dispute(p).committedSlots =>
                        proof[p].storageTries[a][storageProof(a)[m]]
                            = encodeSlotValue(PostSlotValue(a, storageProof(a)[m]))

\* C17 witness: a second commitContractState of one poll is about to be
\* submitted, its proof made after the event of the first one was read.
C17_Witness ==
    \E p \in Provers :
        /\ pc[p] = "accountSubmit" /\ lastResult[p] = Ok /\ accepted[p]
        /\ eventsSeen[p] # {}
        /\ Dispute(p).committedSlots # {}


\* The state-diff proof lists every account the state manager reports changed.
CoversChangedAccounts ==
    changedAccounts \subseteq
        {accountStateProofs[n] : n \in 1 .. Len(accountStateProofs)}

\* C18: when the state-diff proof covers every changed account, no poll of any
\* prover ends with the Inconsistent error, whatever the peer commits between
\* the reads: the account sub-loop is left only with the counter read as zero.
C18_CoveredNeverInconsistent ==
    CoversChangedAccounts =>
        \A p \in Provers :
            /\ outcome[p] # "Inconsistent"
            /\ pc[p] = "complete" => obs[p].uncommittedAccounts = 0

\* C18 witness: the search came back empty after the counter was read as
\* positive, because the peer committed the remaining account in between, and
\* the sub-loop was then left on the second read of the counter.
C18_Witness ==
    \E p \in Provers :
        /\ CoversChangedAccounts
        /\ pc[p] = "accountRecheck"
        /\ obs[p].uncommittedAccounts > 0
        /\ TotalUncommittedAccounts(Dispute(p)) = 0


\* The phases of a transitioner in the order of the protocol.
PhaseOrder(phase) ==
    CASE phase = PhaseNone -> 0
      [] phase = PreExecution -> 1
      [] phase = PostExecution -> 2
      [] phase = Complete -> 3

\* The positions of the PRE_EXECUTION block.
PreBlockPcs == PreWritePcs \cup {"proveAccount"}

\* C19: a PRE_EXECUTION submission made when the transitioner has left
\* PRE_EXECUTION (the contract answers with the phase guard) surfaces no error
\* and changes nothing: the driver is next at the second read of the phase,
\* with the transitioner in POST_EXECUTION or COMPLETE. It makes no further
\* PRE_EXECUTION submission in that dispute: inside the block the driver goes
\* on only after an accepted or already-proven answer, the block is entered
\* only after the phase was read as PRE_EXECUTION, and no transitioner ever
\* goes back to an earlier phase.
C19_PhaseGuardAbsorbed ==
    [][/\ \A p \in Provers :
             /\ (/\ pc[p] \in PreWritePcs
                 /\ Dispute(p).phase # PreExecution
                 /\ <<pc[p], idx[p]>> # <<pc'[p], idx'[p]>>) =>
                   \/ /\ pc'[p] = "checkPost"
                      /\ lastResult'[p] = PhaseGuard
                      /\ outcome'[p] = outcome[p]
                      /\ chainVars' = chainVars
                      /\ Dispute(p).phase \in {PostExecution, Complete}
                   \/ pc'[p] = "sleep" /\ outcome'[p] = "Transport"
             /\ (/\ pc[p] \in PreWritePcs /\ pc'[p] \in PreBlockPcs
                 /\ <<pc[p], idx[p]>> # <<pc'[p], idx'[p]>>) =>
                   lastResult'[p] \in {Ok, AccountAlreadyProven, SlotAlreadyProven}
             /\ (pc[p] \notin PreBlockPcs /\ pc'[p] \in PreBlockPcs) =>
                   /\ pc[p] = "load" /\ pc'[p] = "proveAccount"
                   /\ Dispute(p).phase = PreExecution
       /\ \A i \in DOMAIN disp :
             PhaseOrder(disp'[i].phase) >= PhaseOrder(disp[i].phase)]_vars

\* C19 witness: after the phase guard answered a PRE_EXECUTION submission, the
\* driver is about to submit a POST_EXECUTION commit in the same poll.
C19_Witness ==
    \E p \in Provers :
        /\ lastResult[p] = PhaseGuard
        /\ pc[p] \in {"storageSubmit", "accountSubmit"}


\* The positions at which the driver submits an on-chain write.
SubmitPcs == {"initSubmit", "finalize"} \cup PreWritePcs \cup PostWritePcs

\* The revert messages absorbed at the call site of position w: the catch
\* around the call, and the catch of the block the call is in.
AbsorbedAt(w) ==
    CASE w = "initSubmit" -> {}
      [] w = "proveSubmit" -> {AccountAlreadyProven, PhaseGuard}
      [] w = "proveSlot" -> {SlotAlreadyProven, PhaseGuard}
      [] w = "apply" -> {PhaseGuard}
      [] w = "storageSubmit" ->
            {"invalid opcode", InvalidRootHash, SlotNotCommittable, PhaseGuard}
      [] w = "accountSubmit" ->
            {"invalid opcode", InvalidRootHash, AccountNotCommittable, PhaseGuard}
      [] w = "complete" -> {PhaseGuard}
      [] w = "finalize" -> {InvalidBatchHeader, IndexOutOfBounds}

\* C20: a poll goes on after a submission only when the submission was
\* accepted or its revert message is one absorbed at that call site; a revert
\* with any other message ends the poll at that submission (the driver is back
\* at the sleep of the loop), with nothing changed on the chain, no further
\* write accepted and the cursor still at the disputed index; and the attempt
\* at finalizing is not counted as done on an unmatched revert.
C20_UnmatchedRevertReraised ==
    [][\A p \in Provers :
          /\ (/\ pc[p] \in SubmitPcs /\ pc'[p] # "sleep"
              /\ <<pc[p], idx[p]>> # <<pc'[p], idx'[p]>>) =>
                lastResult'[p] \in {Ok} \cup AbsorbedAt(pc[p])
          /\ (/\ pc[p] # "sleep" /\ pc'[p] = "sleep"
              /\ outcome'[p] \in {"Revert", "OtherRevert"}) =>
                /\ pc[p] \in SubmitPcs
                /\ endPc'[p] = pc[p]
                /\ chainVars' = chainVars
                /\ accepted'[p] = accepted[p]
                /\ nextUnverifiedStateRoot'[p] = nextUnverifiedStateRoot[p]
                /\ nextUnverifiedStateRoot'[p] = fraudulentStateRootIndex[p]
          /\ (/\ pc[p] = "finalize" /\ pc'[p] = "sleep" /\ outcome'[p] = "done"
              /\ FinalizeResult(fraudulentStateRootIndex[p]) = Ok) =>
                validTip' = PrevTotalElements(fraudulentStateRootIndex[p])]_vars

\* C20 witness: a poll in which a write was accepted has ended on a revert
\* with an unmatched message at a later PRE_EXECUTION or POST_EXECUTION
\* submission.
C20_Witness ==
    \E p \in Provers :
        /\ pc[p] = "sleep" /\ outcome[p] = "OtherRevert"
        /\ endPc[p] \in PreWritePcs \cup PostWritePcs
        /\ accepted[p]


\* C21: a finalizeFraudVerification of the driver that the chain answers with
\* 'Invalid batch header.' or 'Index out of bounds.' (the batch of the disputed
\* root is already deleted) ends the poll as a success, with nothing changed on
\* the chain and the cursor at the value an accepted finalize leaves it at:
\* prevTotalElements of the batch of the pre-state root.
C21_FinalizeRaceIsSuccess ==
    [][\A p \in Provers :
          (pc[p] = "finalize" /\ pc'[p] = "sleep" /\ outcome'[p] # "Transport") =>
             LET i == fraudulentStateRootIndex[p] IN
             /\ FinalizeResult(i) \in {Ok, InvalidBatchHeader}
             /\ outcome'[p] = "done"
             /\ nextUnverifiedStateRoot'[p] = PrevTotalElements(i - 1)
             /\ FinalizeResult(i) = InvalidBatchHeader => chainVars' = chainVars
             /\ FinalizeResult(i) = Ok => validTip' = PrevTotalElements(i)]_vars

\* C21 witness: both provers have ended the dispute of one index as a success
\* at the finalize, and only one finalize was accepted.
C21_Witness ==
    \E p, q \in Provers :
        /\ p # q
        /\ fraudulentStateRootIndex[p] = fraudulentStateRootIndex[q]
        /\ pc[p] = "sleep" /\ outcome[p] = "done" /\ endPc[p] = "finalize"
        /\ pc[q] = "sleep" /\ outcome[q] = "done" /\ endPc[q] = "finalize"
        /\ wrote[p] = FinalWrite /\ wrote[q] = FinalWrite
        /\ Dispute(p).count["finalizeFraudVerification"] = 1


\* C22 (as claimed): a poll that ends with an unhandled error leaves the cursor
\* at the value it had when the poll began.
C22_ErrorRestoresPollStart ==
    \A p \in Provers :
        (pc[p] = "sleep" /\ outcome[p] \in Errors) =>
            nextUnverifiedStateRoot[p] = pollStart[p]

\* C22 (amended): the step that ends a poll with an unhandled error does not
\* move the cursor and puts the driver back at the sleep of the loop; the
\* cursor is then where the scanner of that poll had brought it: not below its
\* value at the start of the poll, with a header and matching roots at every
\* index passed, and at the index the scanner returned when it had returned.
C22_ErrorKeepsScannerProgress ==
    [][\A p \in Provers :
          (pc[p] # "sleep" /\ pc'[p] = "sleep" /\ outcome'[p] \in Errors) =>
             /\ nextUnverifiedStateRoot'[p] = nextUnverifiedStateRoot[p]
             /\ nextUnverifiedStateRoot'[p] >= pollStart[p]
             /\ \A c \in pollStart[p] .. (nextUnverifiedStateRoot'[p] - 1) :
                   HasStateRootBatchHeader(c) /\ ~Mismatch(c)
             /\ pc[p] # "scan" =>
                   nextUnverifiedStateRoot'[p] = fraudulentStateRootIndex[p]]_vars

\* C22 witness: a poll has ended with an error raised in the scanner after the
\* scanner had moved the cursor.
C22_Witness ==
    \E p \in Provers :
        /\ pc[p] = "sleep" /\ outcome[p] \in Errors /\ endPc[p] = "scan"
        /\ nextUnverifiedStateRoot[p] > pollStart[p]


\* The connection attempts made so far on an endpoint.
Attempts(failed, connected) == failed + (IF connected THEN 1 ELSE 0)

\* What C23 says of one state of the bootstrap b with the cursor c.
BootstrapInOrder(b, c) ==
    /\ Attempts(b.l1Failed, b.l1Connected) <= 10
    /\ Attempts(b.l2Failed, b.l2Connected) <= 10
    /\ b.stage = "l1" => ~b.l1Connected /\ b.l1Failed <= 9
    /\ b.stage = "l2" => ~b.l2Connected /\ b.l2Failed <= 9
    /\ Attempts(b.l2Failed, b.l2Connected) > 0 => b.l1Connected
    /\ b.stage = "fatal" <=>
          \/ ~b.l1Connected /\ b.l1Failed = 10
          \/ ~b.l2Connected /\ b.l2Failed = 10
    /\ b.stage \in {"contracts", "ready", "failed"} =>
          b.l1Connected /\ b.l2Connected
    /\ c # Undefined <=> b.stage = "ready"
    /\ c # Undefined =>
          /\ b.l1Connected /\ b.l2Connected
          /\ c = fromL2TransactionIndex

\* C23: in _init each endpoint gets at most 10 connection attempts and none
\* after its first success; _init throws the connection error exactly when
\* the 10 attempts on an endpoint have all failed; the L2 endpoint is tried
\* only after the L1 endpoint connected; and the cursor is set, to
\* fromL2TransactionIndex, only after both connected.
C23_BootstrapRetries ==
    [][\A p \in Provers :
          /\ BootstrapInOrder(boot'[p], nextUnverifiedStateRoot'[p])
          /\ boot[p].l1Connected =>
                /\ boot'[p].l1Connected
                /\ boot'[p].l1Failed = boot[p].l1Failed
          /\ boot[p].l2Connected =>
                /\ boot'[p].l2Connected
                /\ boot'[p].l2Failed = boot[p].l2Failed
          /\ boot[p].stage \in {"fatal", "failed", "ready"} => boot'[p] = boot[p]]_vars

\* C23 witness: both endpoints connected at the tenth attempt and the cursor
\* was set to a configured index other than the default.
C23_Witness ==
    \E p \in Provers :
        /\ boot[p].stage = "ready"
        /\ boot[p].l1Failed = 9 /\ boot[p].l2Failed = 9
        /\ nextUnverifiedStateRoot[p] = fromL2TransactionIndex
        /\ fromL2TransactionIndex > 0


\* C24: the driver is about to submit commitContractState only after it read
\* getTotalUncommittedContractStorage as zero in that poll, with no slot left
\* to commit; and, one prover submitting, it is about to submit
\* commitStorageSlot only while no account has been committed in the dispute,
\* so that all its storage commits precede its first account commit.
C24_StorageBeforeAccounts ==
    \A p \in Provers :
        /\ pc[p] \in {"accountFind", "accountSubmit"} =>
              /\ obs[p].uncommittedStorage = 0
              /\ TotalUncommittedContractStorage(Dispute(p)) = 0
        /\ pc[p] = "storageSubmit" => Dispute(p).committedAccounts = {}

\* C24 witness: in a poll that committed the last storage slot the driver has
\* read the storage counter as zero and is about to commit an account.
C24_Witness ==
    \E p \in Provers :
        /\ pc[p] = "accountSubmit" /\ lastResult[p] = Ok
        /\ obs[p].uncommittedStorage = 0
        /\ Dispute(p).committedAccounts = {}
        /\ changedSlots # {} /\ changedSlots \subseteq Dispute(p).committedSlots


\* C25: whenever a poll ends with the rewind of the cursor, the phase of the
\* dispute is COMPLETE and the step that ended the poll is the driver's
\* finalizeFraudVerification; the rewind is never executed for a dispute
\* whose phase is still PRE_EXECUTION or POST_EXECUTION.
C25_RewindOnlyWhenComplete ==
    [][\A p \in Provers :
          (pc[p] # "sleep" /\ pc'[p] = "sleep" /\ outcome'[p] = "done") =>
              /\ pc[p] = "finalize"
              /\ Dispute(p).phase = Complete
              /\ FinalizeResult(fraudulentStateRootIndex[p])
                     \in {Ok, InvalidBatchHeader}
              /\ wrote'[p] = FinalWrite]_vars

\* C25 witness: a poll has ended with the rewind, after the driver's
\* finalizeFraudVerification on a dispute whose phase is COMPLETE.
C25_Witness ==
    \E p \in Provers :
        /\ pc[p] = "sleep" /\ outcome[p] = "done" /\ endPc[p] = "finalize"
        /\ wrote[p] = FinalWrite
        /\ Dispute(p).phase = Complete
        /\ nextUnverifiedStateRoot[p] = PrevTotalElements(fraudulentStateRootIndex[p])


\* C26: every index the driver is about to pass to the settlement-chain view
\* is non-negative: the cursor the scanner asks the header and the root of,
\* and the indexes of the pre-state root and of the suspect root that
\* _getFraudProofData asks the proofs of.
C26_ViewIndexesNonNegative ==
    \A p \in Provers :
        /\ pc[p] = "scan" => nextUnverifiedStateRoot[p] >= 0
        /\ pc[p] = "getProof" =>
              /\ fraudulentStateRootIndex[p] >= 0
              /\ PreStateRootIndex(fraudulentStateRootIndex[p]) >= 0

====
